---- MODULE Spec2Model ----
(***************************************************************************)
(* A model of exp/superrotation/superrotation_nzforcing.py: the class      *)
(* MatsunoGillExperiment (constructor, build_diag_table, default_namelist) *)
(* and the module-level script that builds one experiment and runs it.     *)
(*                                                                         *)
(* Python objects are modelled with reference semantics.  The heap holds   *)
(* three kinds of mutable objects, each addressed by its index:            *)
(*   heap.tops   dictionaries  section name -> section (a dict reference)  *)
(*   heap.dicts  dictionaries  parameter name -> value                     *)
(*   heap.lists  lists of scalars                                          *)
(* A value is a scalar (immutable, written as the source writes it) or a   *)
(* reference to a list.                                                    *)
(***************************************************************************)
EXTENDS Integers, Sequences, FiniteSets, TLC

VARIABLES heap,      \* the Python heap: [tops, dicts, lists]
          exps,      \* the MatsunoGillExperiment objects created so far
          handles,   \* the experiments whose constructor has returned
          pc,        \* position of the (single) Python thread
          frame,     \* the arguments and locals of the running __init__
          raised,    \* the step whose exception is propagating, or "none"
          changes,   \* number of later changes the caller has made
          argv,      \* sys.argv[1:], each argument a sequence of characters
          isMain,    \* __name__ == '__main__'
          exp,       \* the module-level name `exp` (0: not bound)
          diagCalls, \* results of the caller's build_diag_table calls
          lastDiag   \* the table built by the latest build_diag_table call

vars == <<heap, exps, handles, pc, frame, raised, changes, argv, isMain, exp,
          diagCalls, lastDiag>>

\* ------------------------------------------------------------------ bounds
MaxExps == 2
MaxChanges == 1
MaxRuns == 1
MaxArgs == 2

\* ------------------------------------------------------- program constants
NCORES == 16
RESOLUTION == <<"T42", "25">>

\* ------------------------------------------------------------------ values
Scalar(s) == [scalar |-> s, list |-> 0]
ListRef(i) == [scalar |-> "", list |-> i]

\* A literal is a value as the source text writes it: <<"scalar", s>> or
\* <<"list", e1, ..., en>>.
ScalarLit(s) == <<"scalar", s>>
ListLit(elems) == <<"list">> \o elems
IsListLit(lit) == lit[1] = "list"

\* What a value denotes in heap h, as a literal.
Resolve(h, v) == IF v.list = 0 THEN ScalarLit(v.scalar) ELSE ListLit(h.lists[v.list])

\* The contents of section d, of top-level mapping t, with references resolved.
DictView(h, d) == [p \in DOMAIN h.dicts[d] |-> Resolve(h, h.dicts[d][p])]
TopView(h, t) == [s \in DOMAIN h.tops[t].at |-> DictView(h, h.tops[t].at[s])]

Range(seq) == {seq[i] : i \in DOMAIN seq}
EmptyFn == [x \in {} |-> 0]
EmptyTop == [keys |-> <<>>, at |-> EmptyFn]
EmptyHeap == [tops |-> <<>>, dicts |-> <<>>, lists |-> <<>>]

\* ----------------------------------------------- evaluating dict literals
\* Evaluating the display {p: lit[p], ...}: every list literal allocates a new
\* list object, then the dict itself is allocated.  Result: the heap, with
\* the new dict last in heap.dicts.
RECURSIVE EvalParams(_, _, _, _)
EvalParams(h, ps, lit, acc) ==
  IF ps = {} THEN [h EXCEPT !.dicts = Append(@, acc)]
  ELSE LET p == CHOOSE q \in ps : TRUE IN
       IF IsListLit(lit[p])
       THEN EvalParams([h EXCEPT !.lists = Append(@, Tail(lit[p]))], ps \ {p}, lit,
                       (p :> ListRef(Len(h.lists) + 1)) @@ acc)
       ELSE EvalParams(h, ps \ {p}, lit, (p :> Scalar(lit[p][2])) @@ acc)

EvalDict(h, lit) == EvalParams(h, DOMAIN lit, lit, EmptyFn)

\* Evaluating the display {k1: {...}, k2: {...}, ...} with keys in the order
\* `keys`.  Result: the heap, with the new top-level dict last in heap.tops.
RECURSIVE EvalSections(_, _, _, _)
EvalSections(h, keys, lit, acc) ==
  IF keys = <<>> THEN [h EXCEPT !.tops = Append(@, acc)]
  ELSE LET k == Head(keys)
           h1 == EvalDict(h, lit[k])
       IN EvalSections(h1, Tail(keys), lit,
                       [keys |-> Append(acc.keys, k),
                        at |-> (k :> Len(h1.dicts)) @@ acc.at])

EvalTop(h, keys, lit) == EvalSections(h, keys, lit, EmptyTop)

\* ------------------------------------------------------- default_namelist
DefaultKeys == <<"main_nml", "atmosphere_nml", "spectral_dynamics_nml",
                 "hs_forcing_nml", "atf_forcing_nml", "diag_manager_nml",
                 "fms_nml", "fms_io_nml">>

DefaultLiteral ==
  [main_nml |->
     [dt_atmos |-> ScalarLit("300"), days |-> ScalarLit("1800"),
      current_time |-> ScalarLit("0"), calendar |-> ScalarLit("no_calendar")],
   atmosphere_nml |->
     [idealized_moist_model |-> ScalarLit("False")],
   spectral_dynamics_nml |->
     [damping_order |-> ScalarLit("4"),
      water_correction_limit |-> ScalarLit("200.e2"),
      reference_sea_level_press |-> ScalarLit("1.0e5"),
      valid_range_t |-> ListLit(<<"100.", "800.">>),
      initial_sphum |-> ScalarLit("0.0"),
      vert_coord_option |-> ScalarLit("uneven_sigma"),
      scale_heights |-> ScalarLit("6.0"),
      exponent |-> ScalarLit("7.5"),
      surf_res |-> ScalarLit("0.5")],
   hs_forcing_nml |->
     [t_zero |-> ScalarLit("315."), t_strat |-> ScalarLit("200."),
      delh |-> ScalarLit("40."), delv |-> ScalarLit("10."),
      eps |-> ScalarLit("0."), sigma_b |-> ScalarLit("0.7"),
      ka |-> ScalarLit("-40."), ks |-> ScalarLit("-4."), kf |-> ScalarLit("-1."),
      do_conserve_energy |-> ScalarLit("True")],
   atf_forcing_nml |->
     [q0atf |-> ScalarLit("0.0")],
   diag_manager_nml |->
     [mix_snapshot_average_fields |-> ScalarLit("False")],
   fms_nml |->
     [domains_stack_size |-> ScalarLit("600000")],
   fms_io_nml |->
     [threading_write |-> ScalarLit("single"),
      fileset_write |-> ScalarLit("single")]]

\* default_namelist(): the dict display is evaluated anew by every call, so
\* the call allocates new section dicts and a new list for valid_range_t.
\* Result: the heap, with the returned dict last in heap.tops.
default_namelist(h) == EvalTop(h, DefaultKeys, DefaultLiteral)

\* ------------------------------------------------- the merge, lines 58-63
\* Mutant of update: the section is replaced by the override's section.
update_Replace(d, other) == other

\* dict.update: the keys of `other` are set in `d`, the other keys of `d` stay.
\* Values are stored as they are (a list value is stored by reference).
update(d, other) ==
  [p \in DOMAIN d \cup DOMAIN other |-> IF p \in DOMAIN other THEN other[p] ELSE d[p]]

\* Mutant of UpdateSection: a deep merge.  Where the default and the override
\* both hold a list, the override's elements are written over the first
\* elements of the default list, which keeps its other elements.
UpdateSection_Deep(h, namelist, namelist_mod, key) ==
  LET target == h.tops[namelist].at[key]
      source == h.tops[namelist_mod].at[key]
      d == h.dicts[target]
      o == h.dicts[source]
      both == {p \in DOMAIN d \cap DOMAIN o : d[p].list # 0 /\ o[p].list # 0}
      merged(p) == LET a == h.lists[d[p].list]
                       b == h.lists[o[p].list]
                   IN b \o SubSeq(a, Len(b) + 1, Len(a))
  IN [h EXCEPT !.dicts[target] =
                 [p \in DOMAIN d \cup DOMAIN o |->
                    IF p \in both THEN d[p] ELSE IF p \in DOMAIN o THEN o[p] ELSE d[p]],
               !.lists =
                 [i \in DOMAIN h.lists |->
                    IF \E p \in both : d[p].list = i
                    THEN merged(CHOOSE p \in both : d[p].list = i)
                    ELSE h.lists[i]]]

\* Mutant of UpdateSection: the defaults are filled into the override's own
\* section, which then becomes the section of the namelist.
UpdateSection_InOverride(h, namelist, namelist_mod, key) ==
  LET target == h.tops[namelist].at[key]
      source == h.tops[namelist_mod].at[key]
  IN [h EXCEPT !.dicts[source] = update(h.dicts[target], @),
               !.tops[namelist].at[key] = source]

\* namelist[key].update(namelist_mod[key]), line 61
UpdateSection(h, namelist, namelist_mod, key) ==
  LET target == h.tops[namelist].at[key]
      source == h.tops[namelist_mod].at[key]
  IN [h EXCEPT !.dicts[target] = update(@, h.dicts[source])]

\* Mutant of InsertSection: the else branch is missing, a section the
\* defaults do not have is ignored.
InsertSection_Skipped(h, namelist, namelist_mod, key) == h

\* namelist[key] = namelist_mod[key], line 63: the section object of the
\* override is stored itself, not a copy of it.
InsertSection(h, namelist, namelist_mod, key) ==
  [h EXCEPT !.tops[namelist] =
     [keys |-> Append(@.keys, key),
      at |-> (key :> h.tops[namelist_mod].at[key]) @@ @.at]]

\* for key in namelist_mod: ..., lines 59-63, over the keys still to visit
RECURSIVE MergeLoop(_, _, _, _)
MergeLoop(h, namelist, namelist_mod, keys) ==
  IF keys = <<>> THEN h
  ELSE LET key == Head(keys) IN
       IF key \in DOMAIN h.tops[namelist].at
       THEN MergeLoop(UpdateSection(h, namelist, namelist_mod, key),
                      namelist, namelist_mod, Tail(keys))
       ELSE MergeLoop(InsertSection(h, namelist, namelist_mod, key),
                      namelist, namelist_mod, Tail(keys))

\* Lines 58-63.  Result: the heap, the merged dict being the last of heap.tops.
MergedNamelist(h, namelist_mod) ==
  LET h1 == default_namelist(h)
  IN MergeLoop(h1, Len(h1.tops), namelist_mod, h1.tops[namelist_mod].keys)

\* Namelist(namelist), line 64.  Namelist is the external framework's mapping
\* type; the source does not say whether it keeps the section objects of its
\* argument or copies them, so both are outcomes.  Either way parameter values
\* are carried over as they are.  Result: the heap, the Namelist last in tops.
RECURSIVE CopySections(_, _, _, _)
CopySections(h, keys, at, acc) ==
  IF keys = <<>> THEN [h EXCEPT !.tops = Append(@, acc)]
  ELSE LET k == Head(keys)
           h1 == [h EXCEPT !.dicts = Append(@, h.dicts[at[k]])]
       IN CopySections(h1, Tail(keys), at,
                       [keys |-> Append(acc.keys, k),
                        at |-> (k :> Len(h1.dicts)) @@ acc.at])

Namelist(h, namelist, keepSections) ==
  IF keepSections
  THEN [h EXCEPT !.tops = Append(@, h.tops[namelist])]
  ELSE CopySections(h, h.tops[namelist].keys, h.tops[namelist].at, EmptyTop)

\* --------------------------------------------------------- build_diag_table
\* Mutant of NewDiagTable: one table shared by all calls, so that a call adds
\* to what the previous call registered.
NewDiagTable_Shared == lastDiag

\* DiagTable(), line 75: a new, empty table.
NewDiagTable == [files |-> <<>>, fields |-> <<>>]

\* diag.add_file(name, freq, units, time_units=...), line 76
add_file(diag, name, freq, units, time_units) ==
  [diag EXCEPT !.files =
     Append(@, [name |-> name, freq |-> freq, units |-> units, time_units |-> time_units])]

\* diag.add_field(module, name, time_avg=...), lines 79, 82-87
add_field_avg(diag, module, name, time_avg) ==
  [diag EXCEPT !.fields =
     Append(@, [module |-> module, name |-> name, avg_given |-> TRUE, time_avg |-> time_avg])]

\* diag.add_field(module, name), lines 80-81: no time_avg is passed, the
\* framework's default applies whatever output_avg is.
add_field(diag, module, name) ==
  [diag EXCEPT !.fields =
     Append(@, [module |-> module, name |-> name, avg_given |-> FALSE, time_avg |-> FALSE])]

build_diag_table(output_freq, output_avg) ==
  LET d0 == add_file(NewDiagTable, "atmos_monthly", output_freq, "days", "days")
      d1 == add_field_avg(d0, "dynamics", "ps", output_avg)
      d2 == add_field(d1, "dynamics", "bk")
      d3 == add_field(d2, "dynamics", "pk")
      d4 == add_field_avg(d3, "dynamics", "ucomp", output_avg)
      d5 == add_field_avg(d4, "dynamics", "vcomp", output_avg)
      d6 == add_field_avg(d5, "dynamics", "temp", output_avg)
      d7 == add_field_avg(d6, "dynamics", "vor", output_avg)
      d8 == add_field_avg(d7, "dynamics", "div", output_avg)
      d9 == add_field_avg(d8, "hs_forcing", "q_eqf", output_avg)
  IN d9

\* ----------------------------------------------------------- the constructor
NoTable == [files |-> <<>>, fields |-> <<>>]
NoFrame == [self |-> 0, name |-> "", codebase |-> "", output_freq |-> 0,
            namelist_mod |-> 0, kwargs |-> EmptyFn, namelist |-> 0, ret |-> ""]

\* The object of the shared default argument namelist_mod={} (line 43), which
\* is evaluated once, when the def statement runs.
DefaultArg == 1

Self == frame.self
Log(e, event) == [exps EXCEPT ![e].events = Append(@, event)]

\* Where __init__ and the script go on after a step.
After(step) ==
  CASE step = "compile" -> "init"
    [] step = "Experiment.__init__" -> "diag"
    [] step = "build_diag_table" -> "merge"
    [] step = "Namelist" -> "resolution"
    [] step = "set_resolution" -> frame.ret
    [] step = "run" -> "done"

\* Mutant of Raise: the exception is caught and the code goes on.
Raise_Swallowed(step) == pc' = After(step) /\ raised' = step

\* An exception raised by a step of the external framework: nothing in the
\* source catches it, so it leaves __init__ and ends the thread.
Raise(step) == pc' = "raised" /\ raised' = step

\* Entering MatsunoGillExperiment(name, output_freq=..., namelist_mod=..., **kwargs):
\* a new object is made and the parameters are bound, lines 42-43.
Call(name, output_freq, namelist_mod, kwargs, ret) ==
  /\ exps' = Append(exps, [name |-> name, codebase |-> "", diag_table |-> NoTable,
                           namelist |-> 0, resolution |-> <<>>, events |-> <<>>,
                           runs |-> <<>>])
  /\ frame' = [self |-> Len(exps) + 1, name |-> name, codebase |-> "GFDL_BASE",
               output_freq |-> output_freq, namelist_mod |-> namelist_mod,
               kwargs |-> kwargs, namelist |-> 0, ret |-> ret]
  /\ pc' = "compile"

\* Mutant of Compile: the compile call is left out.
Compile_NotRun ==
  /\ pc = "compile"
  /\ pc' = "init"
  /\ UNCHANGED <<heap, exps, handles, frame, raised, changes, argv, isMain, exp,
                 diagCalls, lastDiag>>

\* codebase.compile(), line 45
Compile ==
  /\ pc = "compile"
  /\ \E ok \in BOOLEAN :
       IF ok THEN /\ exps' = Log(Self, "compile")
                  /\ pc' = "init"
                  /\ UNCHANGED raised
             ELSE Raise("compile") /\ UNCHANGED exps
  /\ UNCHANGED <<heap, handles, frame, changes, argv, isMain, exp, diagCalls, lastDiag>>

\* Experiment.__init__(self, name, codebase), line 54
ExperimentInit ==
  /\ pc = "init"
  /\ \E ok \in BOOLEAN :
       IF ok THEN /\ exps' = [Log(Self, "Experiment.__init__")
                                EXCEPT ![Self].codebase = frame.codebase]
                  /\ pc' = "diag"
                  /\ UNCHANGED raised
             ELSE Raise("Experiment.__init__") /\ UNCHANGED exps
  /\ UNCHANGED <<heap, handles, frame, changes, argv, isMain, exp, diagCalls, lastDiag>>

\* self.diag_table = self.build_diag_table(output_freq, False), line 56
AttachDiagTable ==
  /\ pc = "diag"
  /\ \E ok \in BOOLEAN :
       IF ok THEN LET diag == build_diag_table(frame.output_freq, FALSE) IN
                  /\ exps' = [Log(Self, "diag_table") EXCEPT ![Self].diag_table = diag]
                  /\ lastDiag' = diag
                  /\ pc' = "merge"
                  /\ UNCHANGED raised
             ELSE Raise("build_diag_table") /\ UNCHANGED <<exps, lastDiag>>
  /\ UNCHANGED <<heap, handles, frame, changes, argv, isMain, exp, diagCalls>>

\* namelist = self.default_namelist(); for key in namelist_mod: ..., lines 58-63
MergeNamelist ==
  /\ pc = "merge"
  /\ heap' = MergedNamelist(heap, frame.namelist_mod)
  /\ frame' = [frame EXCEPT !.namelist = Len(heap'.tops)]
  /\ pc' = "wrap"
  /\ UNCHANGED <<exps, handles, raised, changes, argv, isMain, exp, diagCalls, lastDiag>>

\* self.namelist = Namelist(namelist), line 64
AttachNamelist ==
  /\ pc = "wrap"
  /\ \E ok \in BOOLEAN :
       IF ok THEN \E keepSections \in BOOLEAN :
                  /\ heap' = Namelist(heap, frame.namelist, keepSections)
                  /\ exps' = [Log(Self, "namelist") EXCEPT ![Self].namelist = Len(heap'.tops)]
                  /\ pc' = "resolution"
                  /\ UNCHANGED raised
             ELSE Raise("Namelist") /\ UNCHANGED <<heap, exps>>
  /\ UNCHANGED <<handles, frame, changes, argv, isMain, exp, diagCalls, lastDiag>>

\* __init__ returns: the caller gets the object.
Return == handles' = handles \cup {Self} /\ pc' = frame.ret

\* Mutant of SetResolution: set_resolution is called whether or not the
\* keyword is given, with RESOLUTION when it is not.
SetResolution_Unconditional ==
  /\ pc = "resolution"
  /\ exps' = [Log(Self, "set_resolution")
               EXCEPT ![Self].resolution = IF "resolution" \in DOMAIN frame.kwargs
                                           THEN frame.kwargs["resolution"]
                                           ELSE RESOLUTION]
  /\ Return
  /\ UNCHANGED <<heap, frame, raised, changes, argv, isMain, exp, diagCalls, lastDiag>>

\* if 'resolution' in kwargs: self.set_resolution(*kwargs['resolution']), lines 66-67
SetResolution ==
  /\ pc = "resolution"
  /\ IF "resolution" \in DOMAIN frame.kwargs
     THEN \E ok \in BOOLEAN :
          IF ok THEN /\ exps' = [Log(Self, "set_resolution")
                                   EXCEPT ![Self].resolution = frame.kwargs["resolution"]]
                     /\ Return
                     /\ UNCHANGED raised
                ELSE Raise("set_resolution") /\ UNCHANGED <<exps, handles>>
     ELSE Return /\ UNCHANGED <<exps, raised>>
  /\ UNCHANGED <<heap, frame, changes, argv, isMain, exp, diagCalls, lastDiag>>

Constructor ==
  \/ Compile
  \/ ExperimentInit
  \/ AttachDiagTable
  \/ MergeNamelist
  \/ AttachNamelist
  \/ SetResolution

\* ------------------------------------------------------------------ exp.run
\* exp.run(segment, num_cores=..., use_restart=..., mpirun_opts=...): one
\* blocking call of the external framework, recorded on the handle.
run(e, segment, num_cores, use_restart, mpirun_opts) ==
  [exps EXCEPT ![e].runs = Append(@, [segment |-> segment, num_cores |-> num_cores,
                                      use_restart |-> use_restart,
                                      mpirun_opts |-> mpirun_opts]),
               ![e].events = Append(@, "run")]

\* Mutant of join: the separator is left out.
RECURSIVE join_NoSeparator(_, _)
join_NoSeparator(sep, args) ==
  IF args = <<>> THEN <<>> ELSE args[1] \o join_NoSeparator(sep, Tail(args))

\* sep.join(args), on strings held as sequences of characters
RECURSIVE join(_, _)
join(sep, args) ==
  IF args = <<>> THEN <<>>
  ELSE IF Len(args) = 1 THEN args[1]
  ELSE args[1] \o sep \o join(sep, Tail(args))

\* ------------------------------------------------------- the module's script
ScriptName == "superrotation_nzforcing_q1_long"
ScriptOverrideKeys == <<"atf_forcing_nml", "main_nml">>
ScriptOverride ==
  [atf_forcing_nml |->
     [q0atf |-> ScalarLit("1.0"), cfatf |-> ScalarLit("0"), katf |-> ScalarLit("2"),
      dphiatf |-> ScalarLit("10.0")],
   main_nml |-> [days |-> ScalarLit("18000")]]

\* exp = MatsunoGillExperiment(...), lines 159-164: the arguments are
\* evaluated (the override display allocates its dicts), then __init__ runs.
ScriptConstruct ==
  /\ pc = "start"
  /\ heap' = EvalTop(heap, ScriptOverrideKeys, ScriptOverride)
  /\ Call(ScriptName, 1000, Len(heap'.tops), "resolution" :> RESOLUTION, "assign")
  /\ UNCHANGED <<handles, raised, changes, argv, isMain, exp, diagCalls, lastDiag>>

\* the assignment to `exp` of line 159, once the constructor has returned
AssignExp ==
  /\ pc = "assign"
  /\ exp' = Self
  /\ pc' = "main"
  /\ UNCHANGED <<heap, exps, handles, frame, raised, changes, argv, isMain,
                 diagCalls, lastDiag>>

\* if __name__ == '__main__': exp.run(1, num_cores=NCORES, use_restart=False,
\*                                    mpirun_opts=' '.join(sys.argv[1:])), lines 168-169
ScriptMain ==
  /\ pc = "main"
  /\ IF isMain
     THEN \E ok \in BOOLEAN :
          IF ok THEN /\ exps' = run(exp, 1, NCORES, FALSE, join(<<" ">>, argv))
                     /\ pc' = "done"
                     /\ UNCHANGED raised
                ELSE Raise("run") /\ UNCHANGED exps
     ELSE pc' = "done" /\ UNCHANGED <<exps, raised>>
  /\ UNCHANGED <<heap, handles, frame, changes, argv, isMain, exp, diagCalls, lastDiag>>

\* The command lines considered: up to MaxArgs arguments, each one of Args.
Args == {<<>>, <<"-", "n">>, <<"4">>, <<"a", " ", "b">>}
ArgvChoices == UNION {[1..n -> Args] : n \in 0..MaxArgs}

\* The state when the module starts to execute: the class statement has run,
\* so the default argument object exists (it is heap.tops[DefaultArg]).
ScriptInit ==
  /\ heap = EvalTop(EmptyHeap, <<>>, EmptyFn)
  /\ exps = <<>>
  /\ handles = {}
  /\ pc = "start"
  /\ frame = NoFrame
  /\ raised = "none"
  /\ changes = 0
  /\ argv \in ArgvChoices
  /\ isMain \in BOOLEAN
  /\ exp = 0
  /\ diagCalls = EmptyFn
  /\ lastDiag = NoTable

ScriptNext ==
  \/ ScriptConstruct
  \/ Constructor
  \/ AssignExp
  \/ ScriptMain

ScriptSpec == ScriptInit /\ [][ScriptNext]_vars

\* ------------------------------------------- a caller that uses the class
\* The override mappings a caller passes: any choice of sections among
\* OverrideKeys, each with one of the contents of SectionChoices.
OverrideKeys == <<"new_nml", "spectral_dynamics_nml", "main_nml">>
SectionChoices ==
  [new_nml |-> {[x |-> ScalarLit("1")]},
   spectral_dynamics_nml |->
     {[valid_range_t |-> ListLit(<<"100.", "500.">>)],
      [valid_range_t |-> ListLit(<<"50.">>)],
      [valid_range_t |-> ScalarLit("0"), num_levels |-> ScalarLit("40")]},
   main_nml |-> {[days |-> ScalarLit("18000")]}]

Overrides ==
  UNION {{f \in [K -> UNION {SectionChoices[k] : k \in K}] :
            \A k \in K : f[k] \in SectionChoices[k]} : K \in SUBSET Range(OverrideKeys)}

KeysOf(f) == SelectSeq(OverrideKeys, LAMBDA k : k \in DOMAIN f)

\* The caller's override object: heap.tops[CallerOverride].
CallerOverride == 2
Names == <<"exp1", "exp2", "exp3", "exp4">>
NewValue == "7"

Init ==
  /\ heap \in {EvalTop(EvalTop(EmptyHeap, <<>>, EmptyFn), KeysOf(f), f) : f \in Overrides}
  /\ exps = <<>>
  /\ handles = {}
  /\ pc = "idle"
  /\ frame = NoFrame
  /\ raised = "none"
  /\ changes = 0
  /\ argv = <<>>
  /\ isMain = FALSE
  /\ exp = 0
  /\ diagCalls = EmptyFn
  /\ lastDiag = NoTable

\* MatsunoGillExperiment(name) and MatsunoGillExperiment(name, namelist_mod=ov);
\* every call uses a new name.
Construct ==
  /\ pc = "idle"
  /\ Len(exps) < MaxExps
  /\ Len(exps) < Len(Names)
  /\ \E namelist_mod \in {DefaultArg, CallerOverride} :
       Call(Names[Len(exps) + 1], 90, namelist_mod, EmptyFn, "idle")
  /\ UNCHANGED <<heap, handles, raised, changes, argv, isMain, exp, diagCalls, lastDiag>>

\* The parameters a caller changes later.
ChangeTargets == {<<"main_nml", "days">>, <<"spectral_dynamics_nml", "valid_range_t">>}

\* e.namelist[s][p] = NewValue, on a constructed experiment
SetParam ==
  /\ pc = "idle"
  /\ changes < MaxChanges
  /\ \E e \in handles, t \in ChangeTargets :
       LET top == heap.tops[exps[e].namelist] IN
       /\ t[1] \in DOMAIN top.at
       /\ t[2] \in DOMAIN heap.dicts[top.at[t[1]]]
       /\ heap' = [heap EXCEPT !.dicts[top.at[t[1]]][t[2]] = Scalar(NewValue)]
  /\ changes' = changes + 1
  /\ UNCHANGED <<exps, handles, pc, frame, raised, argv, isMain, exp, diagCalls, lastDiag>>

\* e.namelist[s][p][0] = NewValue, on a constructed experiment
SetListItem ==
  /\ pc = "idle"
  /\ changes < MaxChanges
  /\ \E e \in handles, t \in ChangeTargets :
       LET top == heap.tops[exps[e].namelist] IN
       /\ t[1] \in DOMAIN top.at
       /\ t[2] \in DOMAIN heap.dicts[top.at[t[1]]]
       /\ LET v == heap.dicts[top.at[t[1]]][t[2]] IN
          /\ v.list # 0
          /\ heap.lists[v.list] # <<>>
          /\ heap' = [heap EXCEPT !.lists[v.list][1] = NewValue]
  /\ changes' = changes + 1
  /\ UNCHANGED <<exps, handles, pc, frame, raised, argv, isMain, exp, diagCalls, lastDiag>>

Next ==
  \/ Construct
  \/ Constructor
  \/ SetParam
  \/ SetListItem

Spec == Init /\ [][Next]_vars

\* --------------------------- a caller that constructs experiments and runs them
\* The state after the caller has evaluated ov = <the script's override>.
LifeInit ==
  /\ heap = EvalTop(EvalTop(EmptyHeap, <<>>, EmptyFn), ScriptOverrideKeys, ScriptOverride)
  /\ exps = <<>>
  /\ handles = {}
  /\ pc = "idle"
  /\ frame = NoFrame
  /\ raised = "none"
  /\ changes = 0
  /\ argv = <<>>
  /\ isMain = FALSE
  /\ exp = 0
  /\ diagCalls = EmptyFn
  /\ lastDiag = NoTable

\* MatsunoGillExperiment(name, output_freq=f, namelist_mod=ov), with or
\* without resolution=RESOLUTION
LifeConstruct ==
  /\ pc = "idle"
  /\ Len(exps) < MaxExps
  /\ Len(exps) < Len(Names)
  /\ \E output_freq \in {90, 1000}, kwargs \in {EmptyFn, "resolution" :> RESOLUTION} :
       Call(Names[Len(exps) + 1], output_freq, CallerOverride, kwargs, "idle")
  /\ UNCHANGED <<heap, handles, raised, changes, argv, isMain, exp, diagCalls, lastDiag>>

\* e.run(i) on a constructed experiment, i the next segment of e
Run ==
  /\ pc = "idle"
  /\ \E e \in handles :
       /\ Len(exps[e].runs) < MaxRuns
       /\ exps' = run(e, Len(exps[e].runs) + 1, NCORES, TRUE, <<>>)
  /\ UNCHANGED <<heap, handles, pc, frame, raised, changes, argv, isMain, exp,
                 diagCalls, lastDiag>>

LifeNext ==
  \/ LifeConstruct
  \/ Constructor
  \/ Run

LifeSpec == LifeInit /\ [][LifeNext]_vars

\* ------------------------------------ a caller that uses build_diag_table
Freqs == {1, 90, 1000}

\* MatsunoGillExperiment.build_diag_table(output_freq, output_avg)
CallBuildDiagTable ==
  /\ pc = "idle"
  /\ \E output_freq \in Freqs, output_avg \in BOOLEAN :
       LET diag == build_diag_table(output_freq, output_avg)
           k == <<output_freq, output_avg>>
       IN /\ lastDiag' = diag
          /\ diagCalls' = IF k \in DOMAIN diagCalls
                          THEN [diagCalls EXCEPT ![k] = @ \cup {diag}]
                          ELSE (k :> {diag}) @@ diagCalls
  /\ UNCHANGED <<heap, exps, handles, pc, frame, raised, changes, argv, isMain, exp>>

DiagNext ==
  \/ CallBuildDiagTable

DiagSpec == LifeInit /\ [][DiagNext]_vars

\* ======================================================== the properties
\* The mapping just attached by line 64, and the override it was merged from.
Result == TopView(heap, exps[Self].namelist)
Override == TopView(heap, frame.namelist_mod)
Defaults == Range(DefaultKeys)

\* C1: when __init__ has attached the namelist, every default section is in
\* it; each parameter the override names for that section has the override's
\* value, and every other default parameter has its default value.
C1_MergeKeepsDefaults ==
  pc = "resolution" =>
    \A S \in Defaults :
      /\ S \in DOMAIN Result
      /\ \A p \in DOMAIN DefaultLiteral[S] \cup
                  (IF S \in DOMAIN Override THEN DOMAIN Override[S] ELSE {}) :
           /\ p \in DOMAIN Result[S]
           /\ Result[S][p] = IF S \in DOMAIN Override /\ p \in DOMAIN Override[S]
                             THEN Override[S][p]
                             ELSE DefaultLiteral[S][p]

C1_Witness ==
  /\ pc = "resolution"
  /\ "main_nml" \in DOMAIN Override
  /\ Result["main_nml"]["days"] = ScalarLit("18000")
  /\ Result["main_nml"]["dt_atmos"] = ScalarLit("300")
  /\ "atmosphere_nml" \notin DOMAIN Override
  /\ Result["atmosphere_nml"] = DefaultLiteral["atmosphere_nml"]

\* C2: a section of the override that default_namelist() does not have is in
\* the attached namelist with exactly the override's parameters and values.
C2_NewSectionUnchanged ==
  pc = "resolution" =>
    \A S \in DOMAIN Override \ Defaults :
      /\ S \in DOMAIN Result
      /\ DOMAIN Result[S] = DOMAIN Override[S]
      /\ \A p \in DOMAIN Override[S] : Result[S][p] = Override[S][p]

C2_Witness ==
  /\ pc = "resolution"
  /\ "new_nml" \in DOMAIN Override
  /\ "new_nml" \in DOMAIN Result
  /\ Result["new_nml"] = [x |-> ScalarLit("1")]

\* C3: no step changes the configuration mapping of two constructed
\* experiments at once (a change to one never shows in another), no step of a
\* construction changes the mapping of an experiment constructed earlier, and
\* a default_namelist() call made now returns the defaults.
ViewOf(h, es, e) == TopView(h, es[e].namelist)

C3_NoCrossContamination ==
  [][/\ \A e, f \in handles :
          (e # f /\ ViewOf(heap', exps', e) # ViewOf(heap, exps, e))
            => ViewOf(heap', exps', f) = ViewOf(heap, exps, f)
     /\ \A e \in handles :
          (pc # "idle" \/ pc' # "idle") => ViewOf(heap', exps', e) = ViewOf(heap, exps, e)
     /\ LET h == default_namelist(heap') IN TopView(h, Len(h.tops)) = DefaultLiteral
    ]_vars

\* C8: where the override names a parameter whose default value is a list,
\* the attached value is the override's value and nothing else: a scalar if
\* the override gives a scalar, else a list of the override's length with the
\* override's elements.
C8_TwoLevelMerge ==
  pc = "resolution" =>
    \A S \in Defaults \cap DOMAIN Override :
      \A p \in DOMAIN Override[S] \cap DOMAIN DefaultLiteral[S] :
        IsListLit(DefaultLiteral[S][p]) =>
          /\ IsListLit(Result[S][p]) = IsListLit(Override[S][p])
          /\ Len(Result[S][p]) = Len(Override[S][p])
          /\ \A i \in 1..Len(Override[S][p]) : Result[S][p][i] = Override[S][p][i]

C8_Witness ==
  /\ pc = "resolution"
  /\ "spectral_dynamics_nml" \in DOMAIN Override
  /\ Override["spectral_dynamics_nml"]["valid_range_t"] = ListLit(<<"50.">>)
  /\ Result["spectral_dynamics_nml"]["valid_range_t"] = ListLit(<<"50.">>)
  /\ DefaultLiteral["spectral_dynamics_nml"]["valid_range_t"] = ListLit(<<"100.", "800.">>)

\* C10: no step of a construction (from the call to the return) changes the
\* caller's override mapping: it keeps its section names, in their order, its
\* section objects and every parameter and value of every section; and the
\* shared default argument stays the empty mapping.
ConstructionStep == pc # "idle" \/ pc' # "idle"

C10_OverrideUntouched ==
  [][ConstructionStep =>
       /\ heap'.tops[CallerOverride] = heap.tops[CallerOverride]
       /\ TopView(heap', CallerOverride) = TopView(heap, CallerOverride)
       /\ heap'.tops[DefaultArg] = EmptyTop
    ]_vars

C10_Witness ==
  /\ pc = "idle"
  /\ handles = {1, 2}
  /\ "new_nml" \in DOMAIN ViewOf(heap, exps, 1)
  /\ "spectral_dynamics_nml" \in DOMAIN TopView(heap, CallerOverride)
  /\ frame.namelist_mod = DefaultArg
  /\ heap.tops[DefaultArg] = EmptyTop
  /\ changes = 0

\* C5: compile() is the first thing every construction does: whatever has
\* happened to an experiment, compile() happened first, and nothing is bound
\* or attached to an experiment whose compile() has not completed.
C5_CompileFirst ==
  \A e \in 1..Len(exps) :
    LET ev == exps[e].events IN
    /\ ev # <<>> => ev[1] = "compile"
    /\ (exps[e].codebase # "" \/ exps[e].diag_table # NoTable \/ exps[e].namelist # 0)
         => (ev # <<>> /\ ev[1] = "compile")
    /\ e \in handles => (ev # <<>> /\ ev[1] = "compile")

C5_Witness ==
  \E e \in handles :
    /\ exps[e].namelist # 0
    /\ exps[e].diag_table # NoTable
    /\ exps[e].codebase = "GFDL_BASE"
    /\ SubSeq(exps[e].events, 1, 4) = <<"compile", "Experiment.__init__", "diag_table", "namelist">>

\* C7: set_resolution is called at most once on an experiment, after its
\* diagnostic table and namelist were attached and before any run of it; an
\* experiment constructed with the resolution keyword has had exactly one
\* call, with the values given, and one constructed without it has had none.
Positions(ev, name) == {i \in DOMAIN ev : ev[i] = name}

C7_ResolutionIffSupplied ==
  /\ \A e \in 1..Len(exps) :
       LET ev == exps[e].events IN
       /\ Cardinality(Positions(ev, "set_resolution")) <= 1
       /\ \A i \in Positions(ev, "set_resolution") :
            /\ \E j \in Positions(ev, "diag_table") : j < i
            /\ \E j \in Positions(ev, "namelist") : j < i
            /\ \A j \in Positions(ev, "run") : i < j
  /\ Self \in handles =>
       IF "resolution" \in DOMAIN frame.kwargs
       THEN /\ Cardinality(Positions(exps[Self].events, "set_resolution")) = 1
            /\ exps[Self].resolution = frame.kwargs["resolution"]
       ELSE /\ Positions(exps[Self].events, "set_resolution") = {}
            /\ exps[Self].resolution = <<>>

C7_Witness ==
  /\ Self \in handles
  /\ "resolution" \in DOMAIN frame.kwargs
  /\ exps[Self].resolution = <<"T42", "25">>
  /\ exps[Self].events = <<"compile", "Experiment.__init__", "diag_table", "namelist",
                           "set_resolution", "run">>
  /\ \E e \in handles : "set_resolution" \notin Range(exps[e].events)

\* C6: the script makes at most one run; a run is of the script's experiment,
\* made as the entry point after the constructor returned, of segment 1
\* without restart, and its launcher options are the arguments, each in its
\* place, character for character, one space between neighbours; the script
\* ends with one run as the entry point and with none otherwise.
RECURSIVE Offset(_, _)
Offset(args, i) == IF i = 1 THEN 0 ELSE Offset(args, i - 1) + Len(args[i - 1]) + 1

Verbatim(opts, args) ==
  /\ Len(opts) = IF args = <<>> THEN 0 ELSE Offset(args, Len(args)) + Len(args[Len(args)])
  /\ \A i \in DOMAIN args :
       SubSeq(opts, Offset(args, i) + 1, Offset(args, i) + Len(args[i])) = args[i]
  /\ \A i \in 2..Len(args) : opts[Offset(args, i)] = " "

C6_OneRunAfterConstruction ==
  /\ \A e \in 1..Len(exps) :
       exps[e].runs # <<>> =>
         /\ isMain
         /\ e = exp
         /\ e \in handles
         /\ exps[e].name = ScriptName
         /\ Len(exps[e].runs) = 1
         /\ exps[e].runs[1].segment = 1
         /\ exps[e].runs[1].use_restart = FALSE
         /\ exps[e].runs[1].num_cores = NCORES
         /\ Verbatim(exps[e].runs[1].mpirun_opts, argv)
         /\ exps[e].events = <<"compile", "Experiment.__init__", "diag_table", "namelist",
                               "set_resolution", "run">>
  /\ pc = "done" =>
       /\ exp \in handles
       /\ Len(exps) = 1
       /\ Len(exps[exp].runs) = IF isMain THEN 1 ELSE 0

C6_Witness ==
  /\ pc = "done"
  /\ isMain
  /\ argv = << <<"-", "n">>, <<"4">> >>
  /\ exps[exp].runs[1].mpirun_opts = <<"-", "n", " ", "4">>

\* C9: an exception of the external framework ends the script where it is
\* raised: nothing runs after it, what the failing step and the later steps
\* would have attached is not attached, and when the failure is in the
\* constructor no handle exists, `exp` is not bound and no run is made.
C9_FailuresPropagate ==
  raised # "none" =>
    /\ pc = "raised"
    /\ ~ENABLED ScriptNext
    /\ raised # "run" =>
         /\ exp = 0
         /\ handles = {}
         /\ \A e \in 1..Len(exps) : exps[e].runs = <<>>
    /\ raised = "compile" =>
         /\ exps[Self].events = <<>>
         /\ exps[Self].codebase = ""
    /\ raised \in {"compile", "Experiment.__init__", "build_diag_table"} =>
         exps[Self].diag_table = NoTable
    /\ raised \in {"compile", "Experiment.__init__", "build_diag_table", "Namelist"} =>
         exps[Self].namelist = 0
    /\ raised # "run" => exps[Self].resolution = <<>>

C9_Witness ==
  /\ pc = "raised"
  /\ raised = "compile"
  /\ Len(exps) = 1
  /\ isMain

\* C4: every build_diag_table(output_freq, output_avg) call returns the same
\* table for the same arguments: one file, written every output_freq days,
\* and nine fields, eight of module dynamics then q_eqf of hs_forcing; the
\* tables for output_avg False and True have the same fields in the same
\* order and differ at most in the averaging flag of a field.
FieldNames(diag) == [i \in DOMAIN diag.fields |-> <<diag.fields[i].module, diag.fields[i].name>>]

C4_DiagTablePure ==
  /\ \A k \in DOMAIN diagCalls :
       /\ Cardinality(diagCalls[k]) = 1
       /\ \A diag \in diagCalls[k] :
            /\ Len(diag.files) = 1
            /\ diag.files[1].freq = k[1]
            /\ diag.files[1].units = "days"
            /\ Len(diag.fields) = 9
            /\ \A i \in 1..8 : diag.fields[i].module = "dynamics"
            /\ FieldNames(diag)[9] = <<"hs_forcing", "q_eqf">>
            /\ \A i \in DOMAIN diag.fields :
                 diag.fields[i].avg_given => diag.fields[i].time_avg = k[2]
  /\ \A k1, k2 \in DOMAIN diagCalls :
       k1[1] = k2[1] =>
         \A d1 \in diagCalls[k1], d2 \in diagCalls[k2] :
           /\ d1.files = d2.files
           /\ FieldNames(d1) = FieldNames(d2)
           /\ \A i \in DOMAIN d1.fields :
                [d1.fields[i] EXCEPT !.time_avg = FALSE] = [d2.fields[i] EXCEPT !.time_avg = FALSE]

C4_Witness ==
  /\ <<1000, TRUE>> \in DOMAIN diagCalls
  /\ <<1000, FALSE>> \in DOMAIN diagCalls
  /\ \E d1 \in diagCalls[<<1000, TRUE>>], d2 \in diagCalls[<<1000, FALSE>>] :
       /\ d1 # d2
       /\ FieldNames(d1) = FieldNames(d2)
       /\ Len(d1.fields) = 9

====
